---- MODULE Spec2Model ----
(***************************************************************************)
(* The in-memory battle sessions of the backend (package handlers):        *)
(* battleStore guarded by battleMutex, StartBattleHandler, MakeMoveHandler, *)
(* GetBattleHandler, processBattleTurn, calculateDamage, cleanupOldBattles. *)
(*                                                                         *)
(* battleStore maps a battle id to a POINTER to a BattleState: `heap` holds *)
(* the BattleState objects and battleStore holds references into it.       *)
(* loadBattleState hands the reference out and releases the read lock, so  *)
(* everything MakeMoveHandler does between loadBattleState and             *)
(* saveBattleState reads and writes the shared object with no lock held.   *)
(* The sections under battleMutex are atomic actions; the unlocked part of *)
(* MakeMoveHandler is a sequence of steps, one per read or write of the    *)
(* shared object, that interleave with every other request.                *)
(*                                                                         *)
(* Time is in milliseconds. Display-only fields (types, spriteUrl, the     *)
(* TurnAction message and timestamp) are left out.                         *)
(***************************************************************************)
EXTENDS Integers, Sequences, FiniteSets, TLC

\* ------------------------------------------------------------- bounds
\* Spec, the concurrent configuration: the request goroutines that can be
\* inside MakeMoveHandler at the same time, the BattleState objects
\* StartBattleHandler allocates in one run, and the move requests that load
\* a battle in one run.
NumProcs == 2
MaxBattles == 1
MaxMoves == 2

\* SpecStore, the configuration with several battles in the store: the same
\* three bounds.
StoreProcs == 1
StoreBattles == 2
StoreMoves == 2

\* SpecLock, the configuration of battleMutex alone: the goroutines that
\* call loadBattleState, saveBattleState or cleanupOldBattles at a time.
NumLockers == 3

\* SpecBuilder: the entries of the moves array of a PokeAPI answer.
MaxCandidates == 5

Procs == 1..NumProcs

\* ------------------------------------------------------------- inputs
\* user.Sub of the authenticated callers.
Users == {"ann", "bob"}

\* Readings of time.Now() (ms since the epoch) the clock passes through:
\* the start, exactly an hour later, and an hour and 300 ms later.
Instants == {0, 3600000, 3600300}

\* playerPokemonId values of start requests, and rand.Intn(1000)+1 outcomes.
PlayerPokemonIds == {0, 1, 2, 3, 1001}
ComputerPokemonIds == {1, 2, 3}

\* moveName values of move requests.
MoveNames == {"", "ZAP", "tackle", "pound"}

\* Outcomes of 0.85 + rand.Float64()*0.15, in thousandths.
RandomFactors == {850, 999}

\* The nil *BattleState.
Nil == 0

\* ------------------------------------------------------------- PokeAPI
\* GET {PokeAPIBaseURL}/pokemon/{id}: the collaborator's answers.
PokeAPIPokemon(pokemonId) ==
    CASE pokemonId = 1 ->
           [status |-> 200, name |-> "pikachu",
            stats |-> [hp |-> 3, attack |-> 5, defense |-> 5, speed |-> 9],
            moves |-> <<"zap", "tackle">>]
      [] pokemonId = 2 ->
           [status |-> 200, name |-> "slowpoke",
            stats |-> [hp |-> 2, attack |-> 5, defense |-> 5, speed |-> 5],
            moves |-> <<"pound">>]
      [] OTHER ->
           [status |-> 404, name |-> "",
            stats |-> [hp |-> 0, attack |-> 0, defense |-> 0, speed |-> 0],
            moves |-> <<>>]

\* GET {PokeAPIBaseURL}/move/{name}: the collaborator's answers.
PokeAPIMove(moveName) ==
    CASE moveName = "zap" ->
           [status |-> 200, power |-> 6, pp |-> 1, type |-> "electric"]
      [] moveName = "tackle" ->
           [status |-> 200, power |-> 4, pp |-> 2, type |-> "normal"]
      [] moveName = "pound" ->
           [status |-> 200, power |-> 4, pp |-> 1, type |-> "normal"]
      [] OTHER ->
           [status |-> 404, power |-> 0, pp |-> 0, type |-> ""]

\* ------------------------------------------------------------- helpers
Min(a, b) == IF a < b THEN a ELSE b

\* int(math.Max(0, float64(x)))
Max0(x) == IF x < 0 THEN 0 ELSE x

\* now.Unix(): whole seconds.
Unix(t) == t \div 1000

\* now.Format(time.RFC3339): the string keeps whole seconds only.
FormatRFC3339(t) == t \div 1000

\* time.Parse(time.RFC3339, s): the instant the string names, in ms.
ParseRFC3339(s) == s * 1000

\* -1 * time.Hour, added to now, in ms.
Hour == 3600 * 1000

\* strings.EqualFold over the move names in use: equal under case folding.
Fold(s) == IF s = "ZAP" THEN "zap" ELSE s
EqualFold(a, b) == Fold(a) = Fold(b)

\* fmt.Sprintf("%s_%d", user.Sub, now.Unix())
BattleIdOf(sub, t) == <<sub, Unix(t)>>

\* A battle id no start produces.
MissingId == <<"nobody", 0>>

\* ------------------------------------------------------------- builder
DefaultMove(moveName) ==
    [name |-> moveName, power |-> 40, type |-> "normal", pp |-> 20, currentPp |-> 20]

fetchMoveDetails(moveName) ==
    LET r == PokeAPIMove(moveName) IN
    IF r.status # 200
      THEN DefaultMove(moveName)
      ELSE [name |-> moveName, power |-> r.power, type |-> r.type,
            pp |-> r.pp, currentPp |-> r.pp]

TackleMove ==
    [name |-> "tackle", power |-> 40, type |-> "normal", pp |-> 35, currentPp |-> 35]

\* An entry of the moves array that is no object with a move.name string:
\* the loop of fetchBattlePokemonData passes over it.
Malformed == "#"

\* The names of the well-formed entries of a moves array, in order.
RECURSIVE MoveNamesOf(_)
MoveNamesOf(entries) ==
    IF entries = <<>>
      THEN <<>>
    ELSE IF Head(entries) = Malformed
      THEN MoveNamesOf(Tail(entries))
    ELSE <<Head(entries)>> \o MoveNamesOf(Tail(entries))

\* fetchBattlePokemonData with CurrentHP one below MaxHP.
fetchBattlePokemonDataWounded(pokemonId) ==
    LET r == PokeAPIPokemon(pokemonId)
        count == Min(4, Len(r.moves))
        fetched == [i \in 1..count |-> fetchMoveDetails(r.moves[i])]
        moves == IF Len(fetched) = 0 THEN <<TackleMove>> ELSE fetched
    IN  IF r.status # 200
          THEN <<>>
          ELSE <<[pokemonId |-> pokemonId, name |-> r.name,
                  currentHp |-> r.stats.hp - 1, maxHp |-> r.stats.hp,
                  moves |-> moves, stats |-> r.stats]>>

\* The builder with no fallback move.
BuildPokemonNoFallback(pokemonId, r) ==
    LET names == MoveNamesOf(r.moves)
        count == Min(4, Len(names))
        fetched == [i \in 1..count |-> fetchMoveDetails(names[i])]
    IN  IF r.status # 200
          THEN <<>>
          ELSE <<[pokemonId |-> pokemonId, name |-> r.name,
                  currentHp |-> r.stats.hp, maxHp |-> r.stats.hp,
                  moves |-> fetched, stats |-> r.stats]>>

\* The builder giving up when the detail of one of its moves cannot be fetched.
BuildPokemonFailingWithMove(pokemonId, r) ==
    LET names == MoveNamesOf(r.moves)
        count == Min(4, Len(names))
        fetched == [i \in 1..count |-> fetchMoveDetails(names[i])]
        moves == IF Len(fetched) = 0 THEN <<TackleMove>> ELSE fetched
    IN  IF r.status # 200 \/ \E i \in 1..count : PokeAPIMove(names[i]).status # 200
          THEN <<>>
          ELSE <<[pokemonId |-> pokemonId, name |-> r.name,
                  currentHp |-> r.stats.hp, maxHp |-> r.stats.hp,
                  moves |-> moves, stats |-> r.stats]>>

\* fetchBattlePokemonData from the answer r of PokeAPI on: <<>> for an
\* error, <<BattlePokemon>> otherwise, with the first 4 named moves of the
\* answer, or tackle when there is none.
BuildPokemon(pokemonId, r) ==
    LET names == MoveNamesOf(r.moves)
        count == Min(4, Len(names))
        fetched == [i \in 1..count |-> fetchMoveDetails(names[i])]
        moves == IF Len(fetched) = 0 THEN <<TackleMove>> ELSE fetched
    IN  IF r.status # 200
          THEN <<>>
          ELSE <<[pokemonId |-> pokemonId, name |-> r.name,
                  currentHp |-> r.stats.hp, maxHp |-> r.stats.hp,
                  moves |-> moves, stats |-> r.stats]>>

\* The result: <<>> for an error, <<BattlePokemon>> otherwise.
fetchBattlePokemonData(pokemonId) == BuildPokemon(pokemonId, PokeAPIPokemon(pokemonId))

\* ------------------------------------------------------------- state
VARIABLES
    now,          \* the wall clock, ms
    battleStore,  \* battle id -> reference into heap
    heap,         \* the BattleState objects allocated so far
    procs,        \* the MakeMoveHandler goroutines: position and locals
    admitted,     \* the move requests that have loaded a battle so far
    succeeded,    \* per BattleState object: the move requests answered 200
    battleMutex,  \* the sync.RWMutex: who holds it for reading, for writing
    lockers,      \* SpecLock: where each goroutine is with the mutex
    probe         \* SpecBuilder, SpecDamage: one call, its input and result

vars == <<now, battleStore, heap, procs, admitted, succeeded, battleMutex, lockers, probe>>

EmptyStore == [id \in {} |-> Nil]

NoTurnResult ==
    [playerAction |-> <<>>, computerAction |-> <<>>, battleEnded |-> FALSE, winner |-> ""]

IdleProc ==
    [pc |-> "idle", user |-> "", moveName |-> "", battle |-> Nil,
     playerMove |-> 0, computerMove |-> 0, playerGoesFirst |-> FALSE,
     turnNumber |-> 0, half |-> 0, damage |-> 0, readHp |-> 0, readPp |-> 0,
     readHistory |-> <<>>,
     turnResult |-> NoTurnResult]

\* A response: the HTTP status, the error string, and the battle and
\* turnResult members (<<>> when omitted).
Response(code, error, battle, turnResult) ==
    [code |-> code, error |-> error, battle |-> battle, turnResult |-> turnResult]

\* The battle ids requests name: the stored ones and one that is not.
RequestIds == DOMAIN battleStore \cup {MissingId}

\* What a handler, or a step of one, does: the response it writes (<<>> when
\* it writes none yet) and the store, the objects and the goroutines it leaves.
Outcome(resp, store, h, pr) ==
    [response |-> resp, battleStore |-> store, heap |-> h, procs |-> pr]

\* A BattleState no map entry and no goroutine points to any more: the
\* garbage collector frees it.
Freed ==
    [battleId |-> <<>>, userId |-> "", playerPokemon |-> <<>>, computerPokemon |-> <<>>,
     currentTurn |-> "", battleStatus |-> "", createdAt |-> 0, updatedAt |-> 0,
     turnHistory |-> <<>>]

Live(store, pr) == {store[id] : id \in DOMAIN store} \cup {pr[p].battle : p \in Procs}

Collect(o) == [ref \in DOMAIN o.heap |->
                 IF ref \in Live(o.battleStore, o.procs) THEN o.heap[ref] ELSE Freed]

Apply(o) ==
    /\ battleStore' = o.battleStore
    /\ heap' = Collect(o)
    /\ procs' = o.procs
    /\ now' = now
    /\ admitted' = admitted + Cardinality({p \in Procs : procs[p].pc = "idle"
                                                        /\ o.procs[p].pc # "idle"})
    /\ succeeded' = [ref \in DOMAIN o.heap |->
                        IF ref \notin Live(o.battleStore, o.procs) THEN 0
                        ELSE (IF ref \in DOMAIN succeeded THEN succeeded[ref] ELSE 0)
                             + Cardinality({p \in Procs : /\ procs[p].pc = "save"
                                                          /\ procs[p].battle = ref
                                                          /\ o.procs[p].pc = "idle"})]
    /\ UNCHANGED <<battleMutex, lockers, probe>>

\* The state after package initialisation, but for probe.
InitStore ==
    /\ now = 0
    /\ battleStore = EmptyStore
    /\ heap = <<>>
    /\ procs = [p \in Procs |-> IdleProc]
    /\ admitted = 0
    /\ succeeded = <<>>
    /\ battleMutex = [readers |-> {}, writer |-> Nil]
    /\ lockers = [g \in 1..NumLockers |-> [op |-> "", pc |-> "out"]]

Init == InitStore /\ probe = <<>>

\* ------------------------------------------------------------- store
\* saveBattleState that builds the map anew around the battle it saves.
saveBattleStateAlone(store, h, ref) ==
    [id \in {h[ref].battleId} |-> ref]

\* saveBattleState: battleStore[battle.BattleId] = battle, under Lock.
saveBattleState(store, h, ref) ==
    [id \in DOMAIN store \cup {h[ref].battleId} |->
        IF id = h[ref].battleId THEN ref ELSE store[id]]

\* loadBattleState without the comparison of battle.UserId with userId.
loadBattleStateAnyOwner(battleId, userId) ==
    IF battleId \notin DOMAIN battleStore
      THEN [battle |-> Nil, err |-> "battle not found"]
      ELSE [battle |-> battleStore[battleId], err |-> ""]

\* loadBattleState under RLock: the reference, or Nil with the error
\* "battle not found" for an absent id and for another user's battle.
loadBattleState(battleId, userId) ==
    IF battleId \notin DOMAIN battleStore
      THEN [battle |-> Nil, err |-> "battle not found"]
      ELSE IF heap[battleStore[battleId]].userId # userId
             THEN [battle |-> Nil, err |-> "battle not found"]
             ELSE [battle |-> battleStore[battleId], err |-> ""]

\* The battles a cleanup would delete with createdAt at the cutoff included.
OldBattlesInclusive ==
    LET cutoff == now - Hour IN
    {id \in DOMAIN battleStore : ParseRFC3339(heap[battleStore[id]].createdAt) <= cutoff}

\* The battles a cleanup keyed on updatedAt would delete.
OldBattlesByUpdatedAt ==
    LET cutoff == now - Hour IN
    {id \in DOMAIN battleStore : ParseRFC3339(heap[battleStore[id]].updatedAt) < cutoff}

\* The battles cleanupOldBattles deletes: those whose parsed createdAt is
\* before now - 1 hour.
OldBattles ==
    LET cutoff == now - Hour IN
    {id \in DOMAIN battleStore : ParseRFC3339(heap[battleStore[id]].createdAt) < cutoff}

\* cleanupOldBattles, under Lock from the first line to the last.
cleanupOldBattles ==
    Outcome(<<>>, [id \in DOMAIN battleStore \ OldBattles |-> battleStore[id]], heap, procs)

\* ------------------------------------------------------------- start
\* A StartBattleHandler that fetches both Pokemon before it validates.
StartBattleFetchesBeforeValidation(playerPokemonId, computerPokemonId) ==
    <<playerPokemonId, computerPokemonId>>

\* The Pokemon ids StartBattleHandler asks PokeAPI for, in order: none when
\* the player's id is out of range, the player's only when that fetch fails.
StartBattleFetches(playerPokemonId, computerPokemonId) ==
    IF playerPokemonId < 1 \/ playerPokemonId > 1000
      THEN <<>>
    ELSE IF fetchBattlePokemonData(playerPokemonId) = <<>>
      THEN <<playerPokemonId>>
    ELSE <<playerPokemonId, computerPokemonId>>

\* StartBattleHandler with the session saved before the computer's
\* Pokemon is fetched.
StartBattleHandlerSaveFirst(user, playerPokemonId, computerPokemonId) ==
    LET playerPokemon == fetchBattlePokemonData(playerPokemonId)
        computerPokemon == fetchBattlePokemonData(computerPokemonId)
        battle == [battleId |-> BattleIdOf(user, now), userId |-> user,
                   playerPokemon |-> playerPokemon[1],
                   computerPokemon |-> IF computerPokemon = <<>>
                                         THEN playerPokemon[1] ELSE computerPokemon[1],
                   currentTurn |-> "player", battleStatus |-> "active",
                   createdAt |-> FormatRFC3339(now), updatedAt |-> FormatRFC3339(now),
                   turnHistory |-> <<>>]
        allocated == Append(heap, battle)
        stored == saveBattleState(battleStore, allocated, Len(allocated))
    IN  IF playerPokemonId < 1 \/ playerPokemonId > 1000
          THEN Outcome(<<Response(400, "Player Pokemon ID must be between 1 and 1000",
                                  <<>>, <<>>)>>, battleStore, heap, procs)
        ELSE IF playerPokemon = <<>>
          THEN Outcome(<<Response(400, "Failed to fetch player Pokemon data", <<>>, <<>>)>>,
                       battleStore, heap, procs)
        ELSE IF computerPokemon = <<>>
          THEN Outcome(<<Response(500, "Failed to fetch computer Pokemon data", <<>>, <<>>)>>,
                       stored, allocated, procs)
        ELSE Outcome(<<Response(200, "", <<battle>>, <<>>)>>, stored, allocated, procs)

StartBattleHandler(user, playerPokemonId, computerPokemonId) ==
    LET playerPokemon == fetchBattlePokemonData(playerPokemonId)
        computerPokemon == fetchBattlePokemonData(computerPokemonId)
        battleId == BattleIdOf(user, now)
        battle == [battleId |-> battleId, userId |-> user,
                   playerPokemon |-> playerPokemon[1],
                   computerPokemon |-> computerPokemon[1],
                   currentTurn |-> "player", battleStatus |-> "active",
                   createdAt |-> FormatRFC3339(now), updatedAt |-> FormatRFC3339(now),
                   turnHistory |-> <<>>]
        allocated == Append(heap, battle)
        fail(code, error) ==
            Outcome(<<Response(code, error, <<>>, <<>>)>>, battleStore, heap, procs)
    IN  IF playerPokemonId < 1 \/ playerPokemonId > 1000
          THEN fail(400, "Player Pokemon ID must be between 1 and 1000")
        ELSE IF playerPokemon = <<>>
          THEN fail(400, "Failed to fetch player Pokemon data")
        ELSE IF computerPokemon = <<>>
          THEN fail(500, "Failed to fetch computer Pokemon data")
        ELSE Outcome(<<Response(200, "", <<battle>>, <<>>)>>,
                     saveBattleState(battleStore, allocated, Len(allocated)),
                     allocated, procs)

\* ------------------------------------------------------------- inspect
\* GetBattleHandler that stamps UpdatedAt on the battle it returns.
GetBattleHandlerStamping(user, battleId) ==
    LET loaded == loadBattleState(battleId, user)
        stamped == [heap EXCEPT ![loaded.battle].updatedAt = FormatRFC3339(now)]
    IN  IF loaded.err # ""
          THEN Outcome(<<Response(404, "Battle not found", <<>>, <<>>)>>,
                       battleStore, heap, procs)
          ELSE Outcome(<<Response(200, "", <<stamped[loaded.battle]>>, <<>>)>>,
                       battleStore, stamped, procs)

GetBattleHandler(user, battleId) ==
    LET loaded == loadBattleState(battleId, user) IN
    IF loaded.err # ""
      THEN Outcome(<<Response(404, "Battle not found", <<>>, <<>>)>>,
                   battleStore, heap, procs)
      ELSE Outcome(<<Response(200, "", <<heap[loaded.battle]>>, <<>>)>>,
                   battleStore, heap, procs)

\* ------------------------------------------------------------- move
\* The level every Pokemon is assumed to have.
Level == 50

\* calculateDamage with baseDamage rounded down before the random factor.
calculateDamageFloorFirst(attacker, defender, move, randomFactor) ==
    LET baseDamage == ((2 * Level + 10) * attacker.stats.attack * move.power)
                        \div (250 * defender.stats.defense)
        damage == (baseDamage * randomFactor) \div 1000
    IN  IF damage < 1 THEN 1 ELSE damage

\* calculateDamage: int(baseDamage * randomFactor), at least 1; the quotient
\* is not rounded before the random factor is applied.
calculateDamage(attacker, defender, move, randomFactor) ==
    LET damage == ((2 * Level + 10) * attacker.stats.attack * move.power * randomFactor)
                    \div (250 * defender.stats.defense * 1000)
    IN  IF damage < 1 THEN 1 ELSE damage

\* An early return of MakeMoveHandler placed after battle.UpdatedAt is set.
RejectAfterUpdatedAt(p, code, error) ==
    Outcome(<<Response(code, error, <<>>, <<>>)>>, battleStore,
            IF procs[p].battle = Nil
              THEN heap
              ELSE [heap EXCEPT ![procs[p].battle].updatedAt = FormatRFC3339(now)],
            [procs EXCEPT ![p] = IdleProc])

\* MakeMoveHandler returns early: the error response is written and the
\* goroutine ends; nothing shared is written.
Reject(p, code, error) ==
    Outcome(<<Response(code, error, <<>>, <<>>)>>, battleStore, heap,
            [procs EXCEPT ![p] = IdleProc])

\* A step of goroutine p that writes no response yet.
Step(p, h, pr) == Outcome(<<>>, battleStore, h, [procs EXCEPT ![p] = pr])

\* MakeMoveHandler up to loadBattleState: the request is validated and the
\* battle is loaded; the goroutine keeps the pointer.
MakeMoveLoad(p, user, battleId, moveName) ==
    LET loaded == loadBattleState(battleId, user) IN
    IF moveName = ""
      THEN Reject(p, 400, "Move name required")
    ELSE IF loaded.err # ""
      THEN Reject(p, 404, "Battle not found")
    ELSE Step(p, heap, [IdleProc EXCEPT !.pc = "check", !.user = user,
                                        !.moveName = moveName,
                                        !.battle = loaded.battle])

\* The checks of MakeMoveHandler with CurrentTurn looked at before
\* BattleStatus.
MakeMoveCheckTurnFirst(p) ==
    LET battle == heap[procs[p].battle] IN
    IF battle.currentTurn # "player"
      THEN Reject(p, 400, "It's not your turn")
    ELSE IF battle.battleStatus # "active"
      THEN Reject(p, 400, "Battle is not active")
    ELSE Step(p, heap, [procs[p] EXCEPT !.pc = "select"])

\* MakeMoveHandler's checks of BattleStatus and CurrentTurn, read through
\* the pointer with no lock held.
MakeMoveCheck(p) ==
    LET battle == heap[procs[p].battle] IN
    IF battle.battleStatus # "active"
      THEN Reject(p, 400, "Battle is not active")
    ELSE IF battle.currentTurn # "player"
      THEN Reject(p, 400, "It's not your turn")
    ELSE Step(p, heap, [procs[p] EXCEPT !.pc = "select"])

\* processBattleTurn with the turn order decided by a strict comparison.
ProcessSelectStrict(p, computerMoveIndex) ==
    LET battle == heap[procs[p].battle]
        moves == battle.playerPokemon.moves
        matches == {i \in 1..Len(moves) : EqualFold(moves[i].name, procs[p].moveName)}
        found == CHOOSE i \in matches : \A j \in matches : i <= j
    IN  IF matches = {}
          THEN Reject(p, 400, "move " \o procs[p].moveName \o " not found")
        ELSE IF moves[found].currentPp <= 0
          THEN Reject(p, 400, "move " \o procs[p].moveName \o " has no PP left")
        ELSE Step(p, heap,
                  [procs[p] EXCEPT !.pc = "attack", !.half = 1, !.moveName = "",
                       !.turnNumber = Len(battle.turnHistory) + 1,
                       !.playerMove = found,
                       !.computerMove = computerMoveIndex,
                       !.playerGoesFirst =
                           battle.playerPokemon.stats.speed
                             > battle.computerPokemon.stats.speed])

\* processBattleTurn up to the turn order: the turn number, the player's
\* move (the first whose name matches, rejected when it has no PP), the
\* computer's move (rand.Intn over its moves) and who goes first.
ProcessSelect(p, computerMoveIndex) ==
    LET battle == heap[procs[p].battle]
        moves == battle.playerPokemon.moves
        matches == {i \in 1..Len(moves) : EqualFold(moves[i].name, procs[p].moveName)}
        found == CHOOSE i \in matches : \A j \in matches : i <= j
    IN  IF matches = {}
          THEN Reject(p, 400, "move " \o procs[p].moveName \o " not found")
        ELSE IF moves[found].currentPp <= 0
          THEN Reject(p, 400, "move " \o procs[p].moveName \o " has no PP left")
        ELSE Step(p, heap,
                  [procs[p] EXCEPT !.pc = "attack", !.half = 1, !.moveName = "",
                       !.turnNumber = Len(battle.turnHistory) + 1,
                       !.playerMove = found,
                       !.computerMove = computerMoveIndex,
                       !.playerGoesFirst =
                           battle.playerPokemon.stats.speed
                             >= battle.computerPokemon.stats.speed])

\* Who attacks in the half-turn the goroutine is in: the first attacker is
\* the player when playerGoesFirst, the second attacker is the other one.
Actor(pr) == IF (pr.half = 1) = pr.playerGoesFirst THEN "player" ELSE "computer"
Other(side) == IF side = "player" THEN "computer" ELSE "player"
Pokemon(battle, side) ==
    IF side = "player" THEN battle.playerPokemon ELSE battle.computerPokemon
MoveIndex(pr) == IF Actor(pr) = "player" THEN pr.playerMove ELSE pr.computerMove

SetCurrentHp(h, ref, side, hp) ==
    IF side = "player"
      THEN [h EXCEPT ![ref].playerPokemon.currentHp = hp]
      ELSE [h EXCEPT ![ref].computerPokemon.currentHp = hp]

SetCurrentPp(h, ref, side, i, pp) ==
    IF side = "player"
      THEN [h EXCEPT ![ref].playerPokemon.moves[i].currentPp = pp]
      ELSE [h EXCEPT ![ref].computerPokemon.moves[i].currentPp = pp]

\* The reads of one attack: calculateDamage(attacker, target, move), then
\* target.CurrentHP, move.CurrentPP and battle.TurnHistory as they are now.
AttackRead(p, randomFactor) ==
    LET pr == procs[p]
        battle == heap[pr.battle]
        attacker == Pokemon(battle, Actor(pr))
        target == Pokemon(battle, Other(Actor(pr)))
        move == attacker.moves[MoveIndex(pr)]
    IN  Step(p, heap,
             [pr EXCEPT !.pc = "write",
                  !.damage = calculateDamage(attacker, target, move, randomFactor),
                  !.readHp = target.currentHp,
                  !.readPp = move.currentPp,
                  !.readHistory = battle.turnHistory])

\* The writes of one attack with no end check after the first attack.
AttackWriteNoFirstEndCheck(p) ==
    LET pr == procs[p]
        ref == pr.battle
        actor == Actor(pr)
        action == [turn |-> pr.turnNumber, actor |-> actor,
                   moveName |-> Pokemon(heap[ref], actor).moves[MoveIndex(pr)].name,
                   damage |-> pr.damage]
        result == IF actor = "player"
                    THEN [pr.turnResult EXCEPT !.playerAction = <<action>>]
                    ELSE [pr.turnResult EXCEPT !.computerAction = <<action>>]
        hit == SetCurrentHp(heap, ref, Other(actor), Max0(pr.readHp - pr.damage))
        used == SetCurrentPp(hit, ref, actor, MoveIndex(pr), pr.readPp - 1)
        appended == [used EXCEPT ![ref].turnHistory = Append(pr.readHistory, action)]
        next == [pr EXCEPT !.damage = 0, !.readHp = 0, !.readPp = 0, !.readHistory = <<>>]
    IN  IF pr.half = 2 /\ Pokemon(appended[ref], Other(actor)).currentHp <= 0
          THEN Step(p, [appended EXCEPT
                          ![ref].battleStatus = IF actor = "player" THEN "won" ELSE "lost",
                          ![ref].currentTurn = "finished"],
                    [next EXCEPT !.pc = "save",
                         !.turnResult = [result EXCEPT !.winner = actor,
                                                       !.battleEnded = TRUE]])
        ELSE IF pr.half = 1
          THEN Step(p, appended,
                    [next EXCEPT !.pc = "attack", !.half = 2, !.turnResult = result])
        ELSE Step(p, [appended EXCEPT ![ref].currentTurn = "player"],
                  [next EXCEPT !.pc = "save", !.turnResult = result])

\* processBattleTurn handing the turn to the computer when the round goes on.
AttackWriteTurnToComputer(p) ==
    LET pr == procs[p]
        ref == pr.battle
        actor == Actor(pr)
        action == [turn |-> pr.turnNumber, actor |-> actor,
                   moveName |-> Pokemon(heap[ref], actor).moves[MoveIndex(pr)].name,
                   damage |-> pr.damage]
        result == IF actor = "player"
                    THEN [pr.turnResult EXCEPT !.playerAction = <<action>>]
                    ELSE [pr.turnResult EXCEPT !.computerAction = <<action>>]
        hit == SetCurrentHp(heap, ref, Other(actor), Max0(pr.readHp - pr.damage))
        used == SetCurrentPp(hit, ref, actor, MoveIndex(pr), pr.readPp - 1)
        appended == [used EXCEPT ![ref].turnHistory = Append(pr.readHistory, action)]
        next == [pr EXCEPT !.damage = 0, !.readHp = 0, !.readPp = 0, !.readHistory = <<>>]
    IN  IF Pokemon(appended[ref], Other(actor)).currentHp <= 0
          THEN Step(p, [appended EXCEPT
                          ![ref].battleStatus = IF actor = "player" THEN "won" ELSE "lost",
                          ![ref].currentTurn = "finished"],
                    [next EXCEPT !.pc = "save",
                         !.turnResult = [result EXCEPT !.winner = actor,
                                                       !.battleEnded = TRUE]])
        ELSE IF pr.half = 1
          THEN Step(p, appended,
                    [next EXCEPT !.pc = "attack", !.half = 2, !.turnResult = result])
        ELSE Step(p, [appended EXCEPT ![ref].currentTurn = "computer"],
                  [next EXCEPT !.pc = "save", !.turnResult = result])

\* The writes of one attack, from the values read before:
\* target.CurrentHP = max(0, CurrentHP - damage), move.CurrentPP--, the
\* TurnAction appended to TurnHistory and put into the result. Then the
\* target's CurrentHP decides: the battle ends, or the second attack
\* follows, or the turn goes back to the player.
AttackWrite(p) ==
    LET pr == procs[p]
        ref == pr.battle
        actor == Actor(pr)
        action == [turn |-> pr.turnNumber, actor |-> actor,
                   moveName |-> Pokemon(heap[ref], actor).moves[MoveIndex(pr)].name,
                   damage |-> pr.damage]
        result == IF actor = "player"
                    THEN [pr.turnResult EXCEPT !.playerAction = <<action>>]
                    ELSE [pr.turnResult EXCEPT !.computerAction = <<action>>]
        hit == SetCurrentHp(heap, ref, Other(actor), Max0(pr.readHp - pr.damage))
        used == SetCurrentPp(hit, ref, actor, MoveIndex(pr), pr.readPp - 1)
        appended == [used EXCEPT ![ref].turnHistory = Append(pr.readHistory, action)]
        next == [pr EXCEPT !.damage = 0, !.readHp = 0, !.readPp = 0, !.readHistory = <<>>]
    IN  IF Pokemon(appended[ref], Other(actor)).currentHp <= 0
          THEN Step(p, [appended EXCEPT
                          ![ref].battleStatus = IF actor = "player" THEN "won" ELSE "lost",
                          ![ref].currentTurn = "finished"],
                    [next EXCEPT !.pc = "save",
                         !.turnResult = [result EXCEPT !.winner = actor,
                                                       !.battleEnded = TRUE]])
        ELSE IF pr.half = 1
          THEN Step(p, appended,
                    [next EXCEPT !.pc = "attack", !.half = 2, !.turnResult = result])
        ELSE Step(p, [appended EXCEPT ![ref].currentTurn = "player"],
                  [next EXCEPT !.pc = "save", !.turnResult = result])

\* MakeMoveHandler after processBattleTurn: UpdatedAt, saveBattleState and
\* the response with the battle and the turn result.
MakeMoveSave(p) ==
    LET pr == procs[p]
        updated == [heap EXCEPT ![pr.battle].updatedAt = FormatRFC3339(now)]
    IN  Outcome(<<Response(200, "", <<updated[pr.battle]>>, <<pr.turnResult>>)>>,
                saveBattleState(battleStore, updated, pr.battle),
                updated, [procs EXCEPT ![p] = IdleProc])

\* ------------------------------------------------------------- next
At(p, pc) == procs[p].pc = pc

Start(maxBattles) ==
    \E u \in Users, pid \in PlayerPokemonIds, cid \in ComputerPokemonIds :
        LET o == StartBattleHandler(u, pid, cid) IN
        /\ Len(o.heap) <= maxBattles
        /\ Apply(o)

Inspect == \E u \in Users, id \in RequestIds : Apply(GetBattleHandler(u, id))

\* The ticker of init fires.
Cleanup == Apply(cleanupOldBattles)

\* The clock moves on to a later reading.
Tick ==
    /\ \E t \in Instants : t > now /\ now' = t
    /\ UNCHANGED <<battleStore, heap, procs, admitted, succeeded, battleMutex, lockers, probe>>

Load(numProcs, maxMoves) ==
    \E p \in 1..numProcs, u \in Users, id \in RequestIds, m \in MoveNames :
        LET o == MakeMoveLoad(p, u, id, m) IN
        /\ At(p, "idle")
        /\ o.procs[p].pc # "idle" => admitted < maxMoves
        /\ Apply(o)

Check == \E p \in Procs : At(p, "check") /\ Apply(MakeMoveCheck(p))

Select ==
    \E p \in Procs :
        /\ At(p, "select")
        /\ \E i \in 1..Len(heap[procs[p].battle].computerPokemon.moves) :
               Apply(ProcessSelect(p, i))

Attack == \E p \in Procs, r \in RandomFactors : At(p, "attack") /\ Apply(AttackRead(p, r))

Write == \E p \in Procs : At(p, "write") /\ Apply(AttackWrite(p))

Save == \E p \in Procs : At(p, "save") /\ Apply(MakeMoveSave(p))

Next ==
    \/ Start(MaxBattles) \/ Inspect \/ Cleanup \/ Tick
    \/ Load(NumProcs, MaxMoves) \/ Check \/ Select \/ Attack \/ Write \/ Save

NextStore ==
    \/ Start(StoreBattles) \/ Inspect \/ Cleanup \/ Tick
    \/ Load(StoreProcs, StoreMoves) \/ Check \/ Select \/ Attack \/ Write \/ Save

Spec == Init /\ [][Next]_vars

SpecStore == Init /\ [][NextStore]_vars

\* ------------------------------------------------------------- battleMutex
\* The functions that touch battleStore, each inside a section of
\* battleMutex: loadBattleState under RLock, the other two under Lock.
LockOps == {"loadBattleState", "saveBattleState", "cleanupOldBattles"}

\* Lock with no look at the readers.
CanLockIgnoringReaders(mutex) == mutex.writer = Nil

\* RWMutex.RLock returns when no writer holds the mutex.
CanRLock(mutex) == mutex.writer = Nil

\* RWMutex.Lock returns when no writer and no reader holds the mutex.
CanLock(mutex) == mutex.writer = Nil /\ mutex.readers = {}

\* A goroutine enters loadBattleState, saveBattleState or cleanupOldBattles.
LockCall ==
    \E g \in 1..NumLockers, op \in LockOps :
        /\ lockers[g].pc = "out"
        /\ lockers' = [lockers EXCEPT ![g] = [op |-> op, pc |-> "waiting"]]
        /\ UNCHANGED <<now, battleStore, heap, procs, admitted, succeeded, battleMutex, probe>>

\* battleMutex.RLock() or battleMutex.Lock() returns: the goroutine is in
\* its section, where it reads or writes battleStore.
LockAcquire ==
    \E g \in 1..NumLockers :
        /\ lockers[g].pc = "waiting"
        /\ IF lockers[g].op = "loadBattleState"
             THEN /\ CanRLock(battleMutex)
                  /\ battleMutex' = [battleMutex EXCEPT !.readers = @ \cup {g}]
             ELSE /\ CanLock(battleMutex)
                  /\ battleMutex' = [battleMutex EXCEPT !.writer = g]
        /\ lockers' = [lockers EXCEPT ![g].pc = "in"]
        /\ UNCHANGED <<now, battleStore, heap, procs, admitted, succeeded, probe>>

\* The deferred RUnlock or Unlock: the function returns.
LockRelease ==
    \E g \in 1..NumLockers :
        /\ lockers[g].pc = "in"
        /\ battleMutex' =
               IF lockers[g].op = "loadBattleState"
                 THEN [battleMutex EXCEPT !.readers = @ \ {g}]
                 ELSE [battleMutex EXCEPT !.writer = Nil]
        /\ lockers' = [lockers EXCEPT ![g] = [op |-> "", pc |-> "out"]]
        /\ UNCHANGED <<now, battleStore, heap, procs, admitted, succeeded, probe>>

NextLock == LockCall \/ LockAcquire \/ LockRelease

SpecLock == Init /\ [][NextLock]_vars

\* ------------------------------------------------------------- builder calls
\* The moves arrays of PokeAPI answers: up to MaxCandidates entries, each a
\* move PokeAPI knows, a move it does not know, or a malformed entry.
CandidateEntries == {"zap", "growl", Malformed}
CandidateLists == UNION {[1..n -> CandidateEntries] : n \in 0..MaxCandidates}

\* A PokeAPI answer for a Pokemon with the given moves array.
AnswerWith(status, entries) ==
    [status |-> status, name |-> "ditto",
     stats |-> [hp |-> 3, attack |-> 5, defense |-> 5, speed |-> 5],
     moves |-> entries]

InitBuilder ==
    /\ InitStore
    /\ \E status \in {200, 404}, entries \in CandidateLists :
           probe = [answer |-> AnswerWith(status, entries), done |-> FALSE, built |-> <<>>]

\* fetchBattlePokemonData runs on the answer.
Build ==
    /\ ~ probe.done
    /\ probe' = [probe EXCEPT !.done = TRUE, !.built = BuildPokemon(4, probe.answer)]
    /\ UNCHANGED <<now, battleStore, heap, procs, admitted, succeeded, battleMutex, lockers>>

SpecBuilder == InitBuilder /\ [][Build]_vars

\* ------------------------------------------------------------- damage calls
\* Attack and defense stats, move powers and random factors (thousandths)
\* of the calls of calculateDamage.
DamageStats == {5, 50, 100}
DamagePowers == {0, 4, 6, 40, 90}
DamageFactors == {850, 900, 990, 999}

InitDamage ==
    /\ InitStore
    /\ \E attack \in DamageStats, defense \in DamageStats,
          power \in DamagePowers, factor \in DamageFactors :
           probe = [attacker |-> [stats |-> [attack |-> attack]],
                    defender |-> [stats |-> [defense |-> defense]],
                    move |-> [power |-> power],
                    randomFactor |-> factor, done |-> FALSE, damage |-> 0]

\* calculateDamage runs.
Calculate ==
    /\ ~ probe.done
    /\ probe' = [probe EXCEPT !.done = TRUE,
                              !.damage = calculateDamage(probe.attacker, probe.defender,
                                                         probe.move, probe.randomFactor)]
    /\ UNCHANGED <<now, battleStore, heap, procs, admitted, succeeded, battleMutex, lockers>>

SpecDamage == InitDamage /\ [][Calculate]_vars

\* ------------------------------------------------------------- properties
\* The stored sessions.
Stored == {heap[battleStore[id]] : id \in DOMAIN battleStore}

\* The BattleState objects the store or a goroutine still points to.
Allocated == {ref \in DOMAIN heap : heap[ref].battleId # <<>>}

Sides == {"player", "computer"}

\* The move of the player's Pokemon a moveName selects, as processBattleTurn
\* finds it: the indices whose name matches.
Matches(battle, moveName) ==
    {i \in 1..Len(battle.playerPokemon.moves) :
        EqualFold(battle.playerPokemon.moves[i].name, moveName)}

\* C1: for every interleaving of concurrent move requests on one battle, the
\* turn history of a stored session never holds two TurnActions that two
\* different calls appended with the same turn number. One call appends at
\* most one TurnAction per actor, so two TurnActions of the same actor with
\* the same turn number come from two calls.
C1_NoTurnNumberSharedByCalls ==
    \A battle \in Stored :
        \A i, j \in 1..Len(battle.turnHistory) :
            i < j => ~ /\ battle.turnHistory[i].turn = battle.turnHistory[j].turn
                       /\ battle.turnHistory[i].actor = battle.turnHistory[j].actor

\* C2: in every reachable state every stored session has a status other than
\* active exactly when its currentTurn is finished.
C2_StatusMatchesTurnHolder ==
    \A battle \in Stored :
        (battle.battleStatus # "active") <=> (battle.currentTurn = "finished")

\* C3: through every step, both Pokemon of every session keep
\* 0 <= currentHp <= maxHp and no step raises a currentHp.
C3_HitPointsInRangeNeverRaised ==
    [][\A ref \in Allocated : \A side \in Sides :
          heap'[ref].battleId # <<>> =>
              /\ 0 <= Pokemon(heap'[ref], side).currentHp
              /\ Pokemon(heap'[ref], side).currentHp <= Pokemon(heap'[ref], side).maxHp
              /\ Pokemon(heap'[ref], side).currentHp <= Pokemon(heap[ref], side).currentHp]_vars

\* C4: in every reachable state every move of both Pokemon of every stored
\* session has currentPp >= 0.
C4_RemainingUsesNeverNegative ==
    \A battle \in Stored : \A side \in Sides :
        \A i \in 1..Len(Pokemon(battle, side).moves) :
            Pokemon(battle, side).moves[i].currentPp >= 0

\* C5: a move request that is rejected leaves every stored session as it
\* was. A request rejected by MakeMoveHandler up to loadBattleState changes
\* neither the store nor any object, and every step a goroutine takes from
\* loadBattleState up to the end of the checks of processBattleTurn (the
\* steps a rejected request is made of) leaves the store and every stored
\* session unchanged.
C5_RejectedActChangesNothing ==
    [][/\ \A p \in Procs, u \in Users, id \in RequestIds, m \in MoveNames :
            LET o == MakeMoveLoad(p, u, id, m) IN
            (At(p, "idle") /\ o.procs[p].pc = "idle") =>
                o.battleStore = battleStore /\ o.heap = heap
       /\ \A p \in Procs :
            (procs[p].pc \in {"check", "select"} /\ procs'[p] # procs[p]) =>
                /\ battleStore' = battleStore
                /\ \A id \in DOMAIN battleStore :
                       heap'[battleStore[id]] = heap[battleStore[id]]]_vars

\* C5 witness: a goroutine has loaded a stored, active battle and asks for
\* a move of the player's Pokemon that has no PP left.
C5_Witness ==
    \E p \in Procs :
        /\ At(p, "select")
        /\ \E id \in DOMAIN battleStore : battleStore[id] = procs[p].battle
        /\ heap[procs[p].battle].battleStatus = "active"
        /\ \E i \in Matches(heap[procs[p].battle], procs[p].moveName) :
               /\ \A j \in Matches(heap[procs[p].battle], procs[p].moveName) : i <= j
               /\ heap[procs[p].battle].playerPokemon.moves[i].currentPp <= 0

\* C6: for every stored battle and every user who does not own it, a get
\* and a move request answer exactly as they answer for an id that is not
\* stored: 404 "Battle not found", no battle in the response, no pointer
\* kept, and nothing in the store or the objects changed.
C6_NotOwnedIsNotFound ==
    \A u \in Users, id \in DOMAIN battleStore :
        heap[battleStore[id]].userId # u =>
            /\ GetBattleHandler(u, id) = GetBattleHandler(u, MissingId)
            /\ GetBattleHandler(u, id).response =
                   <<Response(404, "Battle not found", <<>>, <<>>)>>
            /\ GetBattleHandler(u, id).battleStore = battleStore
            /\ GetBattleHandler(u, id).heap = heap
            /\ \A p \in Procs, m \in MoveNames :
                   At(p, "idle") =>
                       /\ MakeMoveLoad(p, u, id, m) = MakeMoveLoad(p, u, MissingId, m)
                       /\ MakeMoveLoad(p, u, id, m).procs[p] = IdleProc
                       /\ MakeMoveLoad(p, u, id, m).battleStore = battleStore
                       /\ MakeMoveLoad(p, u, id, m).heap = heap

\* C6 witness: a battle of ann's with a turn played is stored while bob,
\* who owns nothing, can ask for it.
C6_Witness ==
    \E id \in DOMAIN battleStore :
        /\ heap[battleStore[id]].userId = "ann"
        /\ heap[battleStore[id]].turnHistory # <<>>
        /\ \E p \in Procs : At(p, "idle")

\* C7: in every reachable state a get by any user for any id changes
\* neither the store, nor any object, nor any goroutine, and what it returns
\* for a stored battle of the caller is that battle as it is stored; so a
\* get that follows it finds the same state and returns the same.
C7_InspectNeverMutates ==
    \A u \in Users, id \in RequestIds :
        LET o == GetBattleHandler(u, id) IN
        /\ o.battleStore = battleStore
        /\ o.heap = heap
        /\ Collect(o) = heap
        /\ o.procs = procs
        /\ o.response[1].code = 200 =>
               o.response[1].battle = <<heap[battleStore[id]]>>

\* C7 witness: a stored battle with a turn in its history and a later
\* updatedAt than createdAt, which its owner can get.
C7_Witness ==
    \E battle \in Stored :
        /\ battle.turnHistory # <<>>
        /\ battle.updatedAt > battle.createdAt

\* C8: in every reachable state, the store cleanupOldBattles leaves holds
\* no session whose createdAt is more than one hour before now, whatever
\* the session's status and updatedAt.
C8_OldSessionsEvicted ==
    LET o == cleanupOldBattles IN
    \A id \in DOMAIN o.battleStore :
        ~ (ParseRFC3339(o.heap[o.battleStore[id]].createdAt) < now - Hour)

\* C8 witness: a battle older than an hour that was acted on within the
\* current second is out of the store while a goroutine still holds it.
C8_Witness ==
    \E p \in Procs :
        /\ procs[p].battle # Nil
        /\ \A id \in DOMAIN battleStore : battleStore[id] # procs[p].battle
        /\ ParseRFC3339(heap[procs[p].battle].createdAt) < now - Hour
        /\ heap[procs[p].battle].updatedAt = FormatRFC3339(now)

\* C9: no step replaces a stored session by another one: an id that is
\* stored before and after a step names the same BattleState object.
C9_StartNeverReplaces ==
    [][\A id \in DOMAIN battleStore :
          id \in DOMAIN battleStore' => battleStore'[id] = battleStore[id]]_vars

\* C10: in every reachable state, a start whose player Pokemon or computer
\* Pokemon cannot be fetched answers with an error and no battle, and
\* leaves the store and every object as they were.
C10_FailedStartStoresNothing ==
    \A u \in Users, pid \in PlayerPokemonIds, cid \in ComputerPokemonIds :
        (fetchBattlePokemonData(pid) = <<>> \/ fetchBattlePokemonData(cid) = <<>>) =>
            LET o == StartBattleHandler(u, pid, cid) IN
            /\ o.response[1].code >= 400
            /\ o.response[1].error # ""
            /\ o.response[1].battle = <<>>
            /\ o.battleStore = battleStore
            /\ o.heap = heap

\* C10 witness: a session is stored under the id a start by its owner
\* would use now, so a failing start has a session it could replace.
C10_Witness ==
    \E id \in DOMAIN battleStore :
        /\ id = BattleIdOf(heap[battleStore[id]].userId, now)
        /\ heap[battleStore[id]].turnHistory # <<>>


\* C11: in every reachable state, a start with a playerPokemonId in range
\* whose player Pokemon or computer Pokemon cannot be fetched answers with
\* status 500.
C11_UpstreamFailureIs500 ==
    \A u \in Users, pid \in PlayerPokemonIds, cid \in ComputerPokemonIds :
        (/\ pid >= 1 /\ pid <= 1000
         /\ (fetchBattlePokemonData(pid) = <<>> \/ fetchBattlePokemonData(cid) = <<>>)) =>
            StartBattleHandler(u, pid, cid).response[1].code = 500

\* C12: a move request reports the first check that fails, in the order
\* status, turn, move name, PP: a battle that is not active is answered
\* "Battle is not active" whatever the turn and the move name are; an
\* active battle whose turn is not the player's "It's not your turn"; past
\* both, a name that matches no move "move <name> not found", and only a
\* name whose first match has no PP "move <name> has no PP left".
C12_FirstFailingCheckWins ==
    \A p \in Procs :
        /\ At(p, "check") =>
             LET battle == heap[procs[p].battle]
                 o == MakeMoveCheck(p)
             IN  /\ battle.battleStatus # "active" =>
                        o.response = <<Response(400, "Battle is not active", <<>>, <<>>)>>
                 /\ (battle.battleStatus = "active" /\ battle.currentTurn # "player") =>
                        o.response = <<Response(400, "It's not your turn", <<>>, <<>>)>>
                 /\ (battle.battleStatus = "active" /\ battle.currentTurn = "player") =>
                        o.response = <<>> /\ o.procs[p].pc = "select"
        /\ At(p, "select") =>
             LET battle == heap[procs[p].battle]
                 name == procs[p].moveName
                 matches == Matches(battle, name)
             IN  \A i \in 1..Len(battle.computerPokemon.moves) :
                     LET o == ProcessSelect(p, i) IN
                     /\ matches = {} =>
                            o.response =
                                <<Response(400, "move " \o name \o " not found", <<>>, <<>>)>>
                     /\ (matches # {} /\ \E k \in matches :
                                           /\ \A j \in matches : k <= j
                                           /\ battle.playerPokemon.moves[k].currentPp <= 0) =>
                            o.response =
                                <<Response(400, "move " \o name \o " has no PP left",
                                           <<>>, <<>>)>>
                     /\ (matches # {} /\ \E k \in matches :
                                           /\ \A j \in matches : k <= j
                                           /\ battle.playerPokemon.moves[k].currentPp > 0) =>
                            o.response = <<>> /\ o.procs[p].pc = "attack"

\* C12 witness: a move request is at the checks on a finished battle with
\* a name that matches none of the player's moves.
C12_Witness ==
    \E p \in Procs :
        /\ At(p, "check")
        /\ heap[procs[p].battle].battleStatus # "active"
        /\ heap[procs[p].battle].currentTurn = "finished"
        /\ Matches(heap[procs[p].battle], procs[p].moveName) = {}

\* C13: in every round being resolved the first attacker is the player
\* exactly when the player's speed is greater than or equal to the
\* computer's speed, and the second attacker is the other one; the first
\* TurnAction of a stored history is the player's under the same condition.
C13_FasterOrEqualPlayerFirst ==
    /\ \A p \in Procs :
         procs[p].pc \in {"attack", "write"} =>
             LET battle == heap[procs[p].battle]
                 faster == battle.playerPokemon.stats.speed
                             >= battle.computerPokemon.stats.speed
             IN  /\ procs[p].half = 1 => (Actor(procs[p]) = "player" <=> faster)
                 /\ procs[p].half = 2 => (Actor(procs[p]) = "computer" <=> faster)
    /\ \A battle \in Stored :
         battle.turnHistory # <<>> =>
             (battle.turnHistory[1].actor = "player"
                <=> battle.playerPokemon.stats.speed >= battle.computerPokemon.stats.speed)

\* C13 witness: at equal speeds the player's attack is the first of a round
\* and has been written to the history.
C13_Witness ==
    \E battle \in Stored :
        /\ battle.playerPokemon.stats.speed = battle.computerPokemon.stats.speed
        /\ battle.turnHistory # <<>>
        /\ battle.turnHistory[1].actor = "player"
        /\ \E p \in Procs : At(p, "attack") /\ procs[p].half = 2
                            /\ Actor(procs[p]) = "computer"


C15_ActReturnsOneOfTwoShapes ==
    \A p \in Procs :
        At(p, "save") =>
            LET o == MakeMoveSave(p)
                battle == o.response[1].battle[1]
                result == o.response[1].turnResult[1]
            IN  /\ \/ /\ battle.battleStatus = "active"
                      /\ battle.currentTurn = "player"
                      /\ ~ result.battleEnded
                   \/ /\ battle.battleStatus \in {"won", "lost"}
                      /\ battle.currentTurn = "finished"
                      /\ result.battleEnded
                /\ (result.battleEnded /\ procs[p].half = 2) =>
                       result.winner = Actor(procs[p])

\* C16: once a session is won or lost, no step changes its status, its
\* Pokemon (HP and PP) or its turn history, and a move request that reaches
\* the checks on it is answered "Battle is not active".
C16_FinishedSessionFrozen ==
    [][/\ \A ref \in Allocated :
            (heap[ref].battleStatus \in {"won", "lost"} /\ heap'[ref].battleId # <<>>) =>
                /\ heap'[ref].battleStatus = heap[ref].battleStatus
                /\ heap'[ref].playerPokemon = heap[ref].playerPokemon
                /\ heap'[ref].computerPokemon = heap[ref].computerPokemon
                /\ heap'[ref].turnHistory = heap[ref].turnHistory
       /\ \A p \in Procs :
            (At(p, "check") /\ heap[procs[p].battle].battleStatus \in {"won", "lost"}) =>
                MakeMoveCheck(p).response =
                    <<Response(400, "Battle is not active", <<>>, <<>>)>>]_vars

\* C17: no get returns a session on which a move request has written its
\* first attack and not yet its second while the round goes on.
C17_NoHalfTurnObserved ==
    \A id \in DOMAIN battleStore, p \in Procs :
        (/\ procs[p].battle = battleStore[id]
         /\ procs[p].pc \in {"attack", "write"}
         /\ procs[p].half = 2) =>
            GetBattleHandler(heap[battleStore[id]].userId, id).response[1].code # 200

\* C18: the TurnActions of the k-th round of a stored session carry turn
\* number k: with the rounds before the last one complete, the i-th
\* TurnAction of the history has turn number (i + 1) \div 2.
C18_TurnNumbersCountRounds ==
    \A battle \in Stored :
        \A i \in 1..Len(battle.turnHistory) :
            battle.turnHistory[i].turn = (i + 1) \div 2


\* C19: in every reachable state, a start that succeeds returns and stores
\* a session that is active, with currentTurn player, an empty history,
\* createdAt equal to updatedAt, the caller as owner, both Pokemon at
\* currentHp = maxHp and every move at currentPp = pp.
C19_FreshSession ==
    \A u \in Users, pid \in PlayerPokemonIds, cid \in ComputerPokemonIds :
        LET o == StartBattleHandler(u, pid, cid) IN
        o.response[1].code = 200 =>
            LET battle == o.response[1].battle[1] IN
            /\ battle.battleStatus = "active"
            /\ battle.currentTurn = "player"
            /\ battle.turnHistory = <<>>
            /\ battle.createdAt = battle.updatedAt
            /\ battle.createdAt = FormatRFC3339(now)
            /\ battle.userId = u
            /\ battle.playerPokemon.pokemonId = pid
            /\ battle.computerPokemon.pokemonId = cid
            /\ \A side \in Sides :
                 /\ Pokemon(battle, side).currentHp = Pokemon(battle, side).maxHp
                 /\ Pokemon(battle, side).maxHp = Pokemon(battle, side).stats.hp
                 /\ \A i \in 1..Len(Pokemon(battle, side).moves) :
                        Pokemon(battle, side).moves[i].currentPp
                          = Pokemon(battle, side).moves[i].pp
            /\ battle.battleId \in DOMAIN o.battleStore
            /\ o.heap[o.battleStore[battle.battleId]] = battle

\* C19 witness: a session started at the later instant is stored, untouched.
C19_Witness ==
    \E battle \in Stored :
        /\ now > 0
        /\ battle.createdAt = FormatRFC3339(now)
        /\ battle.turnHistory = <<>>
        /\ battle.playerPokemon.currentHp = battle.playerPokemon.maxHp

\* C20: in every reachable state, a start whose playerPokemonId is outside
\* 1..1000 asks PokeAPI for nothing, answers 400 and leaves the store and
\* every object as they were.
C20_OutOfRangeRejectedFirst ==
    \A u \in Users, pid \in PlayerPokemonIds, cid \in ComputerPokemonIds :
        (pid < 1 \/ pid > 1000) =>
            LET o == StartBattleHandler(u, pid, cid) IN
            /\ StartBattleFetches(pid, cid) = <<>>
            /\ o.response = <<Response(400, "Player Pokemon ID must be between 1 and 1000",
                                       <<>>, <<>>)>>
            /\ o.battleStore = battleStore
            /\ o.heap = heap
            /\ o.procs = procs

\* C20 witness: a session is stored under the id a start of its owner would
\* use now, while start requests come with ids below 1 and above 1000.
C20_Witness ==
    /\ \E id \in DOMAIN battleStore :
           /\ id = BattleIdOf(heap[battleStore[id]].userId, now)
           /\ heap[battleStore[id]].battleStatus # "active"
    /\ \E pid \in PlayerPokemonIds : pid < 1
    /\ \E pid \in PlayerPokemonIds : pid > 1000


\* C21: in every reachable state, the store cleanupOldBattles leaves holds
\* exactly the stored sessions whose createdAt is not before now minus one
\* hour, each under its id and pointing to the same object, and no object
\* is changed.
C21_EvictsExactlyTheOld ==
    LET o == cleanupOldBattles IN
    /\ DOMAIN o.battleStore =
           {id \in DOMAIN battleStore :
               ParseRFC3339(heap[battleStore[id]].createdAt) >= now - Hour}
    /\ \A id \in DOMAIN o.battleStore : o.battleStore[id] = battleStore[id]
    /\ o.heap = heap
    /\ o.procs = procs

\* C21 witness: a session older than an hour is out of the store, still
\* held by a goroutine that loaded it, while a session that is not older
\* than an hour is stored.
C21_Witness ==
    /\ \E p \in Procs :
           /\ procs[p].battle # Nil
           /\ \A id \in DOMAIN battleStore : battleStore[id] # procs[p].battle
           /\ ParseRFC3339(heap[procs[p].battle].createdAt) < now - Hour
    /\ \E battle \in Stored : ParseRFC3339(battle.createdAt) >= now - Hour


\* C22: while a goroutine is inside saveBattleState or cleanupOldBattles,
\* where battleStore is written, no other goroutine is inside any of the
\* three functions that touch battleStore; goroutines inside
\* loadBattleState exclude only the writers.
C22_ReaderWriterDiscipline ==
    \A g, h \in 1..NumLockers :
        (/\ g # h
         /\ lockers[g].pc = "in"
         /\ lockers[g].op \in {"saveBattleState", "cleanupOldBattles"}) =>
            lockers[h].pc # "in"

\* C22 witness: two goroutines are inside loadBattleState at the same time
\* while a third waits to write.
C22_Witness ==
    \E g, h, w \in 1..NumLockers :
        /\ g # h
        /\ lockers[g] = [op |-> "loadBattleState", pc |-> "in"]
        /\ lockers[h] = [op |-> "loadBattleState", pc |-> "in"]
        /\ lockers[w] = [op |-> "saveBattleState", pc |-> "waiting"]


\* C23: every Pokemon the builder returns has between 1 and 4 moves: the
\* first min(4, n) of the n move names of the answer, in the answer's
\* order, and the single move tackle (power 40, type normal, PP 35) when
\* the answer names no move.
C23_OneToFourMoves ==
    (probe.done /\ probe.built # <<>>) =>
        LET moves == probe.built[1].moves
            names == SelectSeq(probe.answer.moves, LAMBDA e : e # "#")
        IN  /\ Len(moves) >= 1
            /\ Len(moves) <= 4
            /\ IF Len(names) = 0
                 THEN moves = <<[name |-> "tackle", power |-> 40, type |-> "normal",
                                 pp |-> 35, currentPp |-> 35]>>
                 ELSE /\ Len(moves) = (IF Len(names) < 4 THEN Len(names) ELSE 4)
                      /\ \A i \in 1..Len(moves) : moves[i].name = names[i]

\* C23 witness: the builder has run on an answer with five named moves and
\* has kept four.
C23_Witness ==
    /\ probe.done
    /\ probe.built # <<>>
    /\ Len(probe.answer.moves) = 5
    /\ \A i \in 1..5 : probe.answer.moves[i] # "#"
    /\ Len(probe.built[1].moves) = 4


C25_ExhaustedMoveHasNoEffect ==
    [][\A p \in Procs :
          LET pr == procs[p]
              ref == pr.battle
          IN  (/\ At(p, "write") /\ procs'[p] # pr
               /\ Actor(pr) = "computer"
               /\ heap[ref].computerPokemon.moves[pr.computerMove].currentPp <= 0) =>
                  heap'[ref].playerPokemon.currentHp = heap[ref].playerPokemon.currentHp]_vars


\* C26: the turn history is append-only: a step leaves every TurnAction
\* already in a history in its place and unchanged, and adds at most one
\* TurnAction at the end, whose turn number is the length the history had
\* when the call began its round plus 1.
C26_HistoryAppendOnly ==
    [][\A ref \in Allocated :
          heap'[ref].battleId # <<>> =>
              LET before == heap[ref].turnHistory
                  after == heap'[ref].turnHistory
              IN  /\ Len(after) >= Len(before)
                  /\ Len(after) <= Len(before) + 1
                  /\ SubSeq(after, 1, Len(before)) = before
                  /\ Len(after) = Len(before) + 1 =>
                         \E p \in Procs :
                             /\ procs[p].battle = ref
                             /\ after[Len(after)].turn = procs[p].turnNumber
                             /\ after[Len(after)].actor = Actor(procs[p])
                             /\ after[Len(after)].turn
                                  = Len(before) + 2 - procs[p].half]_vars

\* C27: every stored session that no call is working on and that is active
\* with currentTurn player has a move of the player's Pokemon with PP left.
C27_ActivePlayerCanMove ==
    \A id \in DOMAIN battleStore :
        LET battle == heap[battleStore[id]]
        IN  (/\ \A p \in Procs : procs[p].battle # battleStore[id]
             /\ battle.battleStatus = "active"
             /\ battle.currentTurn = "player") =>
                \E i \in 1..Len(battle.playerPokemon.moves) :
                    battle.playerPokemon.moves[i].currentPp > 0

\* C28: a battle id that enters the store enters it with a new session: no
\* step puts back under an absent id an object that existed before.
C28_EvictedStaysAbsent ==
    [][\A id \in DOMAIN battleStore' :
          id \notin DOMAIN battleStore => battleStore'[id] \notin DOMAIN heap]_vars

\* C29: every stored session that is active has both Pokemon above 0 HP;
\* that is won has the computer's at 0 and the player's above 0; that is
\* lost has the player's at 0 and the computer's above 0.
C29_StatusMatchesHitPoints ==
    \A battle \in Stored :
        /\ battle.battleStatus = "active" =>
               battle.playerPokemon.currentHp > 0 /\ battle.computerPokemon.currentHp > 0
        /\ battle.battleStatus = "won" =>
               battle.computerPokemon.currentHp = 0 /\ battle.playerPokemon.currentHp > 0
        /\ battle.battleStatus = "lost" =>
               battle.playerPokemon.currentHp = 0 /\ battle.computerPokemon.currentHp > 0

\* C30: a session still active has had fewer successful acts than its
\* computer Pokemon has maxHp: the battle is over after at most that many.
C30_EndsWithinMaxHpActs ==
    \A ref \in Allocated :
        /\ succeeded[ref] <= heap[ref].computerPokemon.maxHp
        /\ heap[ref].battleStatus = "active" =>
               succeeded[ref] < heap[ref].computerPokemon.maxHp

C32_OtherSessionsUntouched ==
    /\ \A u \in Users, pid \in PlayerPokemonIds, cid \in ComputerPokemonIds :
         LET o == StartBattleHandler(u, pid, cid) IN
         \A id \in DOMAIN battleStore :
             heap[battleStore[id]].userId # u =>
                 /\ id \in DOMAIN o.battleStore
                 /\ o.battleStore[id] = battleStore[id]
                 /\ o.heap[battleStore[id]] = heap[battleStore[id]]
    /\ \A p \in Procs :
         LET acted == heap[procs[p].battle].battleId
             steps ==
               CASE At(p, "check") -> {MakeMoveCheck(p)}
                 [] At(p, "select") ->
                      {ProcessSelect(p, i) :
                         i \in 1..Len(heap[procs[p].battle].computerPokemon.moves)}
                 [] At(p, "attack") -> {AttackRead(p, r) : r \in RandomFactors}
                 [] At(p, "write") -> {AttackWrite(p)}
                 [] At(p, "save") -> {MakeMoveSave(p)}
                 [] OTHER -> {}
         IN  \A o \in steps, id \in DOMAIN battleStore :
                 id # acted =>
                     /\ id \in DOMAIN o.battleStore
                     /\ o.battleStore[id] = battleStore[id]
                     /\ o.heap[battleStore[id]] = heap[battleStore[id]]
    /\ \A p \in Procs, u \in Users, id \in RequestIds, m \in MoveNames :
         At(p, "idle") =>
             LET o == MakeMoveLoad(p, u, id, m) IN
             o.battleStore = battleStore /\ o.heap = heap

\* C32 witness: a move request is about to save its battle, whose turn it
\* has resolved, while a session of another user is stored under another id.
C32_Witness ==
    \E p \in Procs, id \in DOMAIN battleStore :
        /\ At(p, "save")
        /\ heap[procs[p].battle].turnHistory # <<>>
        /\ id # heap[procs[p].battle].battleId
        /\ heap[battleStore[id]].userId # heap[procs[p].battle].userId

\* C33: the TurnResult a move request answers with agrees with the battle
\* in the same answer: battleEnded exactly when a winner is set and the
\* status is not active, winner player exactly when won, winner computer
\* exactly when lost; the first attacker's action is there, and the second
\* attacker's exactly when the first attack did not end the battle.
C33_TurnResultAgreesWithSession ==
    \A p \in Procs :
        At(p, "save") =>
            LET answer == MakeMoveSave(p).response[1]
                battle == answer.battle[1]
                result == answer.turnResult[1]
                first == IF procs[p].playerGoesFirst THEN result.playerAction
                                                     ELSE result.computerAction
                second == IF procs[p].playerGoesFirst THEN result.computerAction
                                                      ELSE result.playerAction
            IN  /\ answer.code = 200
                /\ result.battleEnded <=>
                       (result.winner # "" /\ battle.battleStatus # "active")
                /\ result.winner = "player" <=> battle.battleStatus = "won"
                /\ result.winner = "computer" <=> battle.battleStatus = "lost"
                /\ first # <<>>
                /\ second # <<>> <=> procs[p].half = 2
                /\ procs[p].half = 1 => result.battleEnded

\* C34: a step leaves a session's battleId, userId and createdAt, both
\* Pokemon's maxHp and stats and every move's name, power and pp as they
\* are; it raises no currentHp and no currentPp, so that currentPp <= pp;
\* and updatedAt changes only in the step that answers a move request 200.
C34_FixedFieldsAndNoIncrease ==
    [][\A ref \in Allocated :
          heap'[ref].battleId # <<>> =>
              /\ heap'[ref].battleId = heap[ref].battleId
              /\ heap'[ref].userId = heap[ref].userId
              /\ heap'[ref].createdAt = heap[ref].createdAt
              /\ \A side \in Sides :
                   LET before == Pokemon(heap[ref], side)
                       after == Pokemon(heap'[ref], side)
                   IN  /\ after.maxHp = before.maxHp
                       /\ after.stats = before.stats
                       /\ after.pokemonId = before.pokemonId
                       /\ after.name = before.name
                       /\ after.currentHp <= before.currentHp
                       /\ Len(after.moves) = Len(before.moves)
                       /\ \A i \in 1..Len(before.moves) :
                            /\ after.moves[i].name = before.moves[i].name
                            /\ after.moves[i].power = before.moves[i].power
                            /\ after.moves[i].pp = before.moves[i].pp
                            /\ after.moves[i].type = before.moves[i].type
                            /\ after.moves[i].currentPp <= before.moves[i].currentPp
                            /\ after.moves[i].currentPp <= after.moves[i].pp
              /\ heap'[ref].updatedAt # heap[ref].updatedAt =>
                     \E p \in Procs : /\ At(p, "save") /\ procs[p].battle = ref
                                      /\ procs'[p].pc = "idle"]_vars

\* C35: the builder fails exactly when the answer for the Pokemon itself
\* is not a 200; a move of the answer whose detail cannot be fetched is kept
\* under its own name with power 40, type normal and PP 20.
C35_MoveFailureKeepsDefaults ==
    probe.done =>
        /\ probe.built = <<>> <=> probe.answer.status # 200
        /\ probe.built # <<>> =>
               LET kept == SelectSeq(probe.answer.moves, LAMBDA e : e # "#") IN
               \A i \in 1..Len(kept) :
                   (i <= 4 /\ PokeAPIMove(kept[i]).status # 200) =>
                       probe.built[1].moves[i] =
                           [name |-> kept[i], power |-> 40, type |-> "normal",
                            pp |-> 20, currentPp |-> 20]

\* C35 witness: the builder has run on a 200 answer that names a move whose
\* detail PokeAPI does not serve, and has returned a Pokemon.
C35_Witness ==
    /\ probe.done
    /\ probe.answer.status = 200
    /\ probe.built # <<>>
    /\ \E i \in 1..Len(probe.built[1].moves) :
           /\ probe.built[1].moves[i].name = "growl"
           /\ PokeAPIMove("growl").status # 200

====
